---- MODULE Spec2Model ----
(***************************************************************************)
(* astrostamps: cutout retrieval from SDSS, HSC and GALEX.                 *)
(*                                                                         *)
(* Every public callable of astrostamps/base.py and astrostamps/tools.py   *)
(* is one action.  An action runs the whole call: it draws the arguments   *)
(* and what the remote services answer, and leaves in the state            *)
(*   op        the callable that ran last,                                 *)
(*   args      its arguments and the answers of the services,              *)
(*   requests  the HTTP requests it issued, in order,                      *)
(*   calls     the callables of the package it invoked, in order,          *)
(*   result    what it returned or raised.                                 *)
(*                                                                         *)
(* Numbers.  Angles are integers in units of 1e-9 (degrees or arcseconds): *)
(* one decimal digit below the finest format the code prints ("%.8f").     *)
(* The input sets hold no value that sits exactly halfway between two      *)
(* printed values, so rounding to nearest is what "%.Nf" does on them.     *)
(* Pixel positions are integers in half pixels, so that the ties of        *)
(* Python's round() (half to even), which PIL's crop applies, happen.      *)
(* Strings the code inspects character by character (registry keys, band   *)
(* strings) are sequences of one-character strings.                        *)
(***************************************************************************)
EXTENDS Integers, Sequences, FiniteSets, TLC

VARIABLES op, args, requests, calls, result

vars == <<op, args, requests, calls, result>>

----------------------------------------------------------------------------
(* Bounds of the model *)

MaxBands == 3
MaxPlanes == 4
MaxRows == 3

----------------------------------------------------------------------------
(* Python values and outcomes *)

NoneValue == [type |-> "None"]

Return(v) == [kind |-> "return", exc |-> "", status |-> 0, index |-> -1, value |-> v]

Raise(e) == [kind |-> "raise", exc |-> e, status |-> 0, index |-> -1, value |-> NoneValue]

RaiseStatus(e, s) == [kind |-> "raise", exc |-> e, status |-> s, index |-> -1, value |-> NoneValue]

RaiseIndex(e, i) == [kind |-> "raise", exc |-> e, status |-> 0, index |-> i, value |-> NoneValue]

Outcome(reqs, res) == [requests |-> reqs, calls |-> << >>, result |-> res]

(* The outcome o of a call made from inside another callable. *)
Called(name, o) == [o EXCEPT !.calls = <<name>> \o @]

(* "%.Nf" % v for v in units of 1e-9: the value in units of 10^-N, rounded
   to nearest (drop = 9 - N digits are dropped). *)
Pow10(n) == IF n = 0 THEN 1 ELSE IF n = 1 THEN 10 ELSE IF n = 2 THEN 100
            ELSE IF n = 3 THEN 1000 ELSE 10000

FormatFixed(v, drop) == IF drop = 0 THEN v
                        ELSE (v + (Pow10(drop) \div 2)) \div Pow10(drop)

HttpStatuses == {200, 304, 404, 500}

(* requests.Response.raise_for_status raises HTTPError for 4xx and 5xx;
   Response.ok is "raise_for_status does not raise". *)
RaisesForStatus(status) == status >= 400 /\ status < 600

ResponseOk(status) == ~RaisesForStatus(status)

(* urllib.request.urlopen hands back the response for 2xx and raises
   urllib.error.HTTPError, which carries the code, for any other final status. *)
UrlopenOk(status) == status >= 200 /\ status < 300

Ras == {1501234567, 7}
Decs == {205000003, -12}
PixelSizes == {64, 512}

----------------------------------------------------------------------------
(* astrostamps/base.py *)

(* Executing the module: the class body of Survey evaluates the decorator
   expression abs.abstractmethod, and the builtin abs has no such attribute. *)
SurveyClassBody == Outcome(<< >>, Raise("AttributeError"))

SdssBaseurl == "http://skyserver.sdss.org/dr13/SkyServerWS/ImgCutout/getjpeg?"

(* Survey._download as written, on the response the session hands back:
   one session.get; r.ok returns the content, otherwise r.raise_for_status(). *)
Download(baseurl, params, status) ==
    Outcome(<<[url |-> baseurl, params |-> params]>>,
            IF ResponseOk(status) THEN Return([type |-> "bytes", of |-> params])
            ELSE IF RaisesForStatus(status) THEN RaiseStatus("HTTPError", status)
            ELSE Return(NoneValue))

(* SDSS.fetch: builds params and falls off the end of the function; _download
   is never called. *)
SdssFetchBody(ra, dec, size) ==
    LET params == [ra |-> ra, dec |-> dec, width |-> size, height |-> size]
    IN  Outcome(<< >>, Return(NoneValue))

(* StampFactory._surveys: an insertion-ordered dict, name -> class. *)
surveys == << [name |-> <<"S", "D", "S", "S">>, cls |-> "SDSS"] >>

RegisteredNames == [i \in 1..Len(surveys) |-> surveys[i].name]

(* Iterating a dict yields its keys. *)
DictIter(d) == [i \in 1..Len(d) |-> d[i].name]

(* StampFactory.getstamps: out = {}; for name, survey in StampFactory._surveys:
   out[name] = survey.fetch(ra, dec, size).  The first key, a str, is unpacked
   into the two targets: ValueError unless it has two characters, and then
   survey is a one-character str, which has no fetch.  With no key the loop
   body never runs and the function ends without a return statement.  No
   fetch is ever reached, so no request is issued. *)
GetstampsBody(ra, dec, size) ==
    LET keys == DictIter(surveys)
    IN  IF Len(keys) = 0 THEN Outcome(<< >>, Return(NoneValue))
        ELSE IF Len(keys[1]) # 2 THEN Outcome(<< >>, Raise("ValueError"))
        ELSE Outcome(<< >>, Raise("AttributeError"))

----------------------------------------------------------------------------
(* astrostamps/tools.py: fetch_sdss_cutout *)

SdssScaleDefault == 400000000

(* A fetch that swallows the HTTPError and hands back nothing. *)
FetchSdssCutoutSwallow(ra, dec, scale, width, height, opt, status) ==
    LET url == [url |-> "http://skyserver.sdss.org/dr13/SkyServerWS/ImgCutout/getjpeg",
                params |-> [ra |-> FormatFixed(ra, 1), dec |-> FormatFixed(dec, 1),
                            scale |-> FormatFixed(scale, 4),
                            width |-> width, height |-> height, opt |-> opt]]
    IN  Outcome(<<url>>,
                IF UrlopenOk(status) THEN Return([type |-> "jpeg", of |-> url.params])
                ELSE Return(NoneValue))

(* One urlopen of the formatted URL; image.imread decodes the response. *)
FetchSdssCutout(ra, dec, scale, width, height, opt, status) ==
    LET url == [url |-> "http://skyserver.sdss.org/dr13/SkyServerWS/ImgCutout/getjpeg",
                params |-> [ra |-> FormatFixed(ra, 1), dec |-> FormatFixed(dec, 1),
                            scale |-> FormatFixed(scale, 4),
                            width |-> width, height |-> height, opt |-> opt]]
    IN  Outcome(<<url>>,
                IF UrlopenOk(status) THEN Return([type |-> "jpeg", of |-> url.params])
                ELSE RaiseStatus("HTTPError", status))

----------------------------------------------------------------------------
(* astrostamps/tools.py: HSCSession *)

BandChars == {"g", "r", "i", "I"}

(* str.upper on one character. *)
Upper(ch) == IF ch = "g" THEN "G" ELSE IF ch = "r" THEN "R"
             ELSE IF ch = "i" THEN "I" ELSE ch

(* What one session.get meets: a response with this status, or 0 when the
   transport raises requests.ConnectionError and there is no response. *)
BandAnswers == {200, 404, 0}

TransportRaises(answer) == answer = 0

HscWidths == {2000000000, 1234567}

(* "%.6f" % (v / 2.0) for v in units of 1e-9. *)
FormatHalf(v) == (v + 1000) \div 2000

HscUrl(ra, dec, width, height, oneband) ==
    [url |-> "https://hsc-release.mtk.nao.ac.jp/das_quarry//cgi-bin/quarryImage",
     params |-> [ra |-> FormatFixed(ra, 3), dec |-> FormatFixed(dec, 3),
                 sw |-> FormatHalf(width), sh |-> FormatHalf(height),
                 filter |-> <<"HSC-", oneband>>]]

(* fits.open of a response: the data units of the product of that request. *)
FitsOpen(url) ==
    << [unit |-> "PRIMARY", of |-> url.params],
       [unit |-> "IMAGE", of |-> url.params],
       [unit |-> "MASK", of |-> url.params] >>

(* The for loop of fetch_hsc_cutout from band character i on. *)
RECURSIVE FetchHscLoop(_, _, _, _, _, _, _, _)
FetchHscLoop(ra, dec, width, height, band, answers, i, acc) ==
    IF i > Len(band) THEN acc
    ELSE LET url == HscUrl(ra, dec, width, height, band[i])
             reqs == Append(acc.requests, url)
         IN  IF TransportRaises(answers[i])
             THEN [requests |-> reqs, images |-> acc.images, raised |-> TRUE]
             ELSE FetchHscLoop(ra, dec, width, height, band, answers, i + 1,
                    [requests |-> reqs,
                     images |-> IF ResponseOk(answers[i])
                                THEN Append(acc.images, FitsOpen(url))
                                ELSE acc.images,
                     raised |-> FALSE])

(* np.dstack([hdu[1].data for hdu in images]) *)
DStack(images) ==
    IF Len(images) = 0 THEN Raise("ValueError")
    ELSE Return([type |-> "ndarray", planes |-> [k \in 1..Len(images) |-> images[k][2]]])

FetchHscCutout(ra, dec, width, height, band, imageonly, answers) ==
    LET upper == [k \in 1..Len(band) |-> Upper(band[k])]
        loop == FetchHscLoop(ra, dec, width, height, upper, answers, 1,
                             [requests |-> << >>, images |-> << >>, raised |-> FALSE])
    IN  IF loop.raised THEN Outcome(loop.requests, Raise("ConnectionError"))
        ELSE IF imageonly THEN Outcome(loop.requests, DStack(loop.images))
        ELSE Outcome(loop.requests, Return([type |-> "list", hdus |-> loop.images]))

(* A plane lookup that wraps around instead of failing, as a negative or
   modular index would. *)
PlaneAtWrap(images, k) ==
    IF Len(images.planes) = 0 THEN RaiseIndex("IndexError", k)
    ELSE Return(images.planes[(k % Len(images.planes)) + 1])

(* images[:, :, k] *)
PlaneAt(images, k) ==
    IF k < Len(images.planes) THEN Return(images.planes[k + 1])
    ELSE RaiseIndex("IndexError", k)

(* make_lupton_rgb(images[:, :, 0], images[:, :, 1], images[:, :, 2], ...) *)
ComposeRgb(images, stretch, Q) ==
    LET r == PlaneAt(images, 0)
        g == PlaneAt(images, 1)
        b == PlaneAt(images, 2)
    IN  IF r.kind = "raise" THEN r
        ELSE IF g.kind = "raise" THEN g
        ELSE IF b.kind = "raise" THEN b
        ELSE Return([type |-> "rgb", r |-> r.value, g |-> g.value, b |-> b.value,
                     stretch |-> stretch, Q |-> Q])

StretchDefault == 5
QDefault == 8

(* HSCSession.make_rgb_image; images is NoneValue or an ndarray. *)
MakeRgbImage(ra, dec, width, height, band, stretch, Q, images, answers) ==
    IF images = NoneValue
    THEN LET fetched == Called("fetch_hsc_cutout",
                               FetchHscCutout(ra, dec, width, height, band, TRUE, answers))
         IN  IF fetched.result.kind = "raise" THEN fetched
             ELSE [fetched EXCEPT !.result = ComposeRgb(fetched.result.value, stretch, Q)]
    ELSE Outcome(<< >>, ComposeRgb(images, stretch, Q))

----------------------------------------------------------------------------
(* astrostamps/tools.py: fetch_galex_cutout *)

(* pixscale = 1.5 arcsec/pixel, as the fraction PixscaleNum / PixscaleDen. *)
PixscaleNum == 3
PixscaleDen == 2

SurveyNames == {"AIS", "ais", "MIS"}

(* str.upper on the survey names of the model. *)
UpperName(s) == IF s = "ais" THEN "AIS" ELSE s

(* The TABLEDATA of the discovery response whose rows carry these survey
   names: cell 0 is the survey name, cell 20 the URL of the row's product
   (a product is named by the row that lists it). *)
TableOf(names) == [i \in 1..Len(names) |-> [col0 |-> names[i], col20 |-> i]]

(* A lookup that ignores case. *)
SurveyIdxCaseless(table, survey) ==
    LET Test(i) == UpperName(table[i].col0) = UpperName(survey)
    IN  SelectSeq([i \in 1..Len(table) |-> i], Test)

(* np.argwhere(np.array([t[0].text for t in table]) == survey): the indices
   of the rows whose first cell equals survey, ascending. *)
SurveyIdx(table, survey) ==
    LET Test(i) == table[i].col0 = survey
    IN  SelectSeq([i \in 1..Len(table) |-> i], Test)

(* A jpg_url taken from the row that supplied the FITS header. *)
JpgRowFirst(survey_idx) == survey_idx[1]

(* survey_idx[0][0] and survey_idx[-1][0] *)
FitsRow(survey_idx) == survey_idx[1]

JpgRow(survey_idx) == survey_idx[Len(survey_idx)]

(* np.floor(size / pixscale / 2.0), size in whole arcseconds. *)
CropPix(size) == (size * PixscaleDen) \div (PixscaleNum * 2)

(* Python's round() of v2 / 2: to nearest, a tie to the even neighbour. *)
RoundHalfEven(v2) ==
    IF v2 % 2 = 0 THEN v2 \div 2
    ELSE LET f == (v2 - 1) \div 2
         IN  IF f % 2 = 0 THEN f ELSE f + 1

Max(a, b) == IF a >= b THEN a ELSE b
Min(a, b) == IF a <= b THEN a ELSE b

(* A crop that keeps only the part of the box inside the raster, as array
   slicing would. *)
CropClipped(raster, box2) ==
    LET l == RoundHalfEven(box2[1])
        u == RoundHalfEven(box2[2])
        r == RoundHalfEven(box2[3])
        b == RoundHalfEven(box2[4])
        w == Max(0, Min(r, raster.width) - Max(l, 0))
        h == Max(0, Min(b, raster.height) - Max(u, 0))
    IN  [type |-> "image", of |-> raster.of, flipped |-> raster.flipped,
         box |-> <<l, u, r, b>>, size |-> <<w, h>>, inside |-> <<w, h>>]

(* PIL's Image.crop(box), box in half pixels: each edge is rounded, the
   result has the size of the rounded box, and the part of the box outside
   the raster is filled with zeros.  inside is the extent of the part that
   shows pixels of the raster. *)
Crop(raster, box2) ==
    LET l == RoundHalfEven(box2[1])
        u == RoundHalfEven(box2[2])
        r == RoundHalfEven(box2[3])
        b == RoundHalfEven(box2[4])
    IN  [type |-> "image", of |-> raster.of, flipped |-> raster.flipped,
         box |-> <<l, u, r, b>>, size |-> <<r - l, b - u>>,
         inside |-> <<Max(0, Min(r, raster.width) - Max(l, 0)),
                      Max(0, Min(b, raster.height) - Max(u, 0))>>]

(* Image.transpose(Image.FLIP_TOP_BOTTOM) *)
FlipTopBottom(raster) == [raster EXCEPT !.flipped = ~raster.flipped]

(* fetch_galex_cutout.  pix2 is what wcs_world2pix gives for (ra, dec) under
   the header of the product at fits_url, in half pixels; side is the side
   of the preview rasters. *)
FetchGalexCutout(ra, dec, size, survey, table, pix2, side) ==
    LET discovery == [url |-> "http://galex.stsci.edu/gxWS/SIAP/gxSIAP.aspx",
                      params |-> [POS |-> <<ra, dec>>, SIZE |-> 0]]
        survey_idx == SurveyIdx(table, survey)
    IN  IF Len(survey_idx) = 0 THEN Outcome(<<discovery>>, Return(NoneValue))
        ELSE LET fits_url == table[FitsRow(survey_idx)].col20
                 jpg_url == table[JpgRow(survey_idx)].col20
                 crop_pix == CropPix(size)
                 crop == <<pix2[1] - 2 * crop_pix, pix2[2] - 2 * crop_pix,
                           pix2[1] + 2 * crop_pix, pix2[2] + 2 * crop_pix>>
                 jpg_img == [of |-> jpg_url, width |-> side, height |-> side,
                             flipped |-> FALSE]
                 cut == Crop(FlipTopBottom(jpg_img), crop)
             IN  Outcome(<<discovery, [url |-> fits_url, params |-> "header"],
                           [url |-> jpg_url, params |-> "image"]>>,
                         Return([cut EXCEPT !.type = "cutout"] @@ [wcs |-> fits_url]))

GalexSizes == {3, 8, 50}
GalexPixX == {-3, 0, 7, 8, 17}
GalexPixY == {8, 15}
RasterSides == {8}

----------------------------------------------------------------------------
(* The state machine.  The callables share no state, so a behaviour is one
   call from the idle state; a sequence of calls is a sequence of these. *)

SeqsUpTo(S, n) == UNION {[1..k -> S] : k \in 0..n}

(* The band strings of the calls: one to MaxBands band characters. *)
BandStrings == SeqsUpTo(BandChars, MaxBands) \ {<< >>}

HscRas == {1501234567}
HscDecs == {205000003}

(* The image plane of the band-b cutout of the default 2 arcsec box. *)
PlaneOf(ra, dec, b) ==
    [unit |-> "IMAGE", of |-> HscUrl(ra, dec, 2000000000, 2000000000, b).params]

SuppliedStacks ==
    {[type |-> "ndarray",
      planes |-> [k \in 1..Len(bs) |-> PlaneOf(1501234567, 205000003, bs[k])]] :
        bs \in SeqsUpTo({"I", "R", "G"}, MaxPlanes)}

Init ==
    /\ op = "none"
    /\ args = [none |-> TRUE]
    /\ requests = << >>
    /\ calls = << >>
    /\ result = Return(NoneValue)

ImportBase ==
    /\ op = "none"
    /\ op' = "import_base"
    /\ args' = [none |-> TRUE]
    /\ requests' = SurveyClassBody.requests
    /\ calls' = SurveyClassBody.calls
    /\ result' = SurveyClassBody.result

CallDownload ==
    /\ op = "none"
    /\ \E ra \in Ras, dec \in Decs, size \in PixelSizes, status \in HttpStatuses :
        LET params == [ra |-> ra, dec |-> dec, width |-> size, height |-> size]
            o == Download(SdssBaseurl, params, status)
        IN  /\ op' = "download"
            /\ args' = [params |-> params, status |-> status]
            /\ requests' = o.requests
            /\ calls' = o.calls
            /\ result' = o.result

CallSdssFetch ==
    /\ op = "none"
    /\ \E ra \in Ras, dec \in Decs, size \in PixelSizes :
        LET o == SdssFetchBody(ra, dec, size)
        IN  /\ op' = "sdss_fetch"
            /\ args' = [ra |-> ra, dec |-> dec, size |-> size]
            /\ requests' = o.requests
            /\ calls' = o.calls
            /\ result' = o.result

CallGetstamps ==
    /\ op = "none"
    /\ \E ra \in Ras, dec \in Decs, size \in PixelSizes :
        LET o == GetstampsBody(ra, dec, size)
        IN  /\ op' = "getstamps"
            /\ args' = [ra |-> ra, dec |-> dec, size |-> size]
            /\ requests' = o.requests
            /\ calls' = o.calls
            /\ result' = o.result

CallFetchSdssCutout ==
    /\ op = "none"
    /\ \E ra \in Ras, dec \in Decs, size \in PixelSizes, status \in HttpStatuses :
        LET o == FetchSdssCutout(ra, dec, SdssScaleDefault, size, size, "", status)
        IN  /\ op' = "fetch_sdss_cutout"
            /\ args' = [ra |-> ra, dec |-> dec, size |-> size, status |-> status]
            /\ requests' = o.requests
            /\ calls' = o.calls
            /\ result' = o.result

CallFetchHscCutout ==
    /\ op = "none"
    /\ \E ra \in HscRas, dec \in HscDecs,
          band \in BandStrings, width \in HscWidths,
          imageonly \in BOOLEAN :
        \E answers \in [1..Len(band) -> BandAnswers] :
            LET o == FetchHscCutout(ra, dec, width, width, band, imageonly, answers)
            IN  /\ op' = "fetch_hsc_cutout"
                /\ args' = [ra |-> ra, dec |-> dec, width |-> width,
                            height |-> width, band |-> band,
                            imageonly |-> imageonly, answers |-> answers]
                /\ requests' = o.requests
                /\ calls' = o.calls
                /\ result' = o.result

CallMakeRgbImage ==
    /\ op = "none"
    /\ \/ \E ra \in HscRas, dec \in HscDecs,
             band \in BandStrings, width \in HscWidths :
            \E answers \in [1..Len(band) -> BandAnswers] :
                LET o == MakeRgbImage(ra, dec, width, width, band,
                                      StretchDefault, QDefault, NoneValue, answers)
                IN  /\ op' = "make_rgb_image"
                    /\ args' = [ra |-> ra, dec |-> dec, width |-> width,
                                height |-> width, band |-> band,
                                images |-> NoneValue, answers |-> answers]
                    /\ requests' = o.requests
                    /\ calls' = o.calls
                    /\ result' = o.result
       \/ \E ra \in HscRas, dec \in HscDecs, images \in SuppliedStacks :
                LET o == MakeRgbImage(ra, dec, 2000000000, 2000000000,
                                      <<"i", "r", "g">>, StretchDefault, QDefault,
                                      images, << >>)
                IN  /\ op' = "make_rgb_image"
                    /\ args' = [ra |-> ra, dec |-> dec, width |-> 2000000000,
                                height |-> 2000000000, band |-> <<"i", "r", "g">>,
                                images |-> images, answers |-> << >>]
                    /\ requests' = o.requests
                    /\ calls' = o.calls
                    /\ result' = o.result

CallFetchGalexCutout ==
    /\ op = "none"
    /\ \E ra \in HscRas, dec \in HscDecs,
          names \in SeqsUpTo(SurveyNames, MaxRows), survey \in {"AIS", "MIS"},
          size \in GalexSizes, x2 \in GalexPixX, y2 \in GalexPixY,
          side \in RasterSides :
        LET table == TableOf(names)
            o == FetchGalexCutout(ra, dec, size, survey, table, <<x2, y2>>, side)
        IN  /\ op' = "fetch_galex_cutout"
            /\ args' = [ra |-> ra, dec |-> dec, size |-> size,
                        survey |-> survey, table |-> table,
                        pix2 |-> <<x2, y2>>, side |-> side]
            /\ requests' = o.requests
            /\ calls' = o.calls
            /\ result' = o.result

Next ==
    \/ ImportBase
    \/ CallDownload
    \/ CallSdssFetch
    \/ CallGetstamps
    \/ CallFetchSdssCutout
    \/ CallFetchHscCutout
    \/ CallMakeRgbImage
    \/ CallFetchGalexCutout

Spec == Init /\ [][Next]_vars

----------------------------------------------------------------------------
(* Properties *)

Indices(seq) == [i \in 1..Len(seq) |-> i]

(* The result is a mapping that holds an entry under name. *)
HasEntry(res, name) ==
    /\ res.kind = "return"
    /\ res.value.type = "dict"
    /\ \E k \in 1..Len(res.value.entries) : res.value.entries[k].name = name

(* C1: after getstamps, every registered service has had its fetch invoked
   and has its own entry (an image or a recorded failure) in the result, so
   that no service's failure aborts another's attempt or entry. *)
C1_FailureIsolated ==
    op = "getstamps" =>
        \A i \in 1..Len(RegisteredNames) :
            /\ \E k \in 1..Len(calls) : calls[k] = <<RegisteredNames[i], "fetch">>
            /\ HasEntry(result, RegisteredNames[i])

(* C2: getstamps returns a mapping whose keys are exactly the registered
   service names, having invoked each service's fetch once, in registration
   order. *)
C2_CompleteMapping ==
    op = "getstamps" =>
        /\ result.kind = "return"
        /\ result.value.type = "dict"
        /\ [k \in 1..Len(result.value.entries) |-> result.value.entries[k].name]
               = RegisteredNames
        /\ calls = [i \in 1..Len(RegisteredNames) |-> <<RegisteredNames[i], "fetch">>]

(* The filters of the bands whose request was answered with a success, in
   the caller's band order. *)
SuccessfulFilters(band, answers) ==
    LET Good(i) == answers[i] >= 200 /\ answers[i] < 400
        idx == SelectSeq(Indices(band), Good)
    IN  [k \in 1..Len(idx) |-> <<"HSC-", Upper(band[idx[k]])>>]

NoTransportError(answers) == \A i \in 1..Len(answers) : answers[i] # 0

(* The filters of the exposures a fetch_hsc_cutout result holds. *)
StackFilters(value) ==
    IF value.type = "ndarray"
    THEN [k \in 1..Len(value.planes) |-> value.planes[k].of.filter]
    ELSE [k \in 1..Len(value.hdus) |-> value.hdus[k][2].of.filter]

(* C3: whatever the band string and the per-band responses, fetch_hsc_cutout
   issues one GET per band character, uppercased, and returns without raising
   a stack of exactly the successful bands' exposures in the caller's order. *)
C3_FailedBandsOmitted ==
    (op = "fetch_hsc_cutout" /\ NoTransportError(args.answers)) =>
        /\ Len(requests) = Len(args.band)
        /\ \A i \in 1..Len(args.band) :
               requests[i].params.filter = <<"HSC-", Upper(args.band[i])>>
        /\ result.kind = "return"
        /\ result.value.type \in {"ndarray", "list"}
        /\ StackFilters(result.value) = SuccessfulFilters(args.band, args.answers)

(* The number of bands of the stack make_rgb_image composes. *)
StackSize(a) ==
    IF a.images = NoneValue THEN Len(SuccessfulFilters(a.band, a.answers))
    ELSE Len(a.images.planes)

(* C4, as stated: with fewer than three bands in the stack, make_rgb_image
   fails with InvalidStackError. *)
C4_RaisesInvalidStackError ==
    (op = "make_rgb_image" /\ NoTransportError(args.answers) /\ StackSize(args) < 3) =>
        /\ result.kind = "raise"
        /\ result.exc = "InvalidStackError"

(* C4, amended: with n < 3 bands in the stack make_rgb_image raises and
   returns no image: IndexError for the band index n, the first one missing,
   except that a stack of its own fetch with no successful band fails in the
   stacking of that fetch, with ValueError.  With three bands or more it
   returns the composition of entries 0, 1, 2 as red, green, blue. *)
C4_ShortStackRaises ==
    (op = "make_rgb_image" /\ NoTransportError(args.answers)) =>
        LET n == StackSize(args)
            fetched == args.images = NoneValue
        IN  IF n < 3
            THEN /\ result.kind = "raise"
                 /\ IF fetched /\ n = 0
                    THEN result.exc = "ValueError"
                    ELSE result.exc = "IndexError" /\ result.index = n
            ELSE /\ result.kind = "return"
                 /\ result.value.type = "rgb"
                 /\ IF fetched
                    THEN LET f == SuccessfulFilters(args.band, args.answers)
                         IN  /\ result.value.r.of.filter = f[1]
                             /\ result.value.g.of.filter = f[2]
                             /\ result.value.b.of.filter = f[3]
                    ELSE /\ result.value.r = args.images.planes[1]
                         /\ result.value.g = args.images.planes[2]
                         /\ result.value.b = args.images.planes[3]

(* 'irg' fetched with only i and r answered successfully: a two-band stack,
   on which the composition fails. *)
C4_Witness ==
    /\ op = "make_rgb_image"
    /\ args.images = NoneValue
    /\ args.band = <<"i", "r", "g">>
    /\ args.answers = <<200, 200, 404>>
    /\ result.kind = "raise"
    /\ result.exc = "IndexError"
    /\ Len(requests) = 3

NoRowMatches(table, survey) == \A i \in 1..Len(table) : table[i].col0 # survey

(* C5: when no row of the discovery response carries exactly the requested
   survey name (the table may be empty, or hold the name in another case),
   fetch_galex_cutout returns None without raising, after the discovery
   request alone. *)
C5_NoMatchReturnsNone ==
    (op = "fetch_galex_cutout" /\ NoRowMatches(args.table, args.survey)) =>
        /\ result.kind = "return"
        /\ result.value = NoneValue
        /\ Len(requests) = 1

(* A table whose only mention of the survey differs in case. *)
C5_Witness ==
    /\ op = "fetch_galex_cutout"
    /\ args.survey = "AIS"
    /\ Len(args.table) = 2
    /\ args.table[1].col0 = "ais"
    /\ args.table[2].col0 = "MIS"
    /\ result.kind = "return"
    /\ result.value = NoneValue

(* C6: one call of the Single-Shot client's fetch (SDSS.fetch, or
   fetch_sdss_cutout) issues exactly one HTTP request, whose parameters are
   those the inputs determine. *)
C6_ExactlyOneRequest ==
    /\ op = "sdss_fetch" =>
          /\ Len(requests) = 1
          /\ requests[1].params = [ra |-> args.ra, dec |-> args.dec,
                                   width |-> args.size, height |-> args.size]
    /\ op = "fetch_sdss_cutout" =>
          /\ Len(requests) = 1
          /\ requests[1].params.width = args.size
          /\ requests[1].params.height = args.size

(* The response is not a success for the client that received it. *)
NotSuccessful(o, status) ==
    IF o = "fetch_sdss_cutout" THEN status < 200 \/ status >= 300
    ELSE status >= 400

(* C7: when the response to the Single-Shot client's request is not
   successful, the fetch raises HTTPError carrying the response's status,
   returns nothing, and has issued that one request only. *)
C7_FailedResponseRaises ==
    (op \in {"download", "fetch_sdss_cutout"} /\ NotSuccessful(op, args.status)) =>
        /\ result.kind = "raise"
        /\ result.exc = "HTTPError"
        /\ result.status = args.status
        /\ Len(requests) = 1

C7_Witness ==
    /\ op = "fetch_sdss_cutout"
    /\ args.status = 404
    /\ result.kind = "raise"
    /\ result.status = 404
    /\ Len(requests) = 1

(* C8: when the transport raises on one band's GET, every other requested
   band is still fetched: the GET of each band that is answered successfully
   is issued, and its exposure is in the stack the call returns. *)
C8_TransportFailureIsolated ==
    (op = "fetch_hsc_cutout" /\ ~NoTransportError(args.answers)) =>
        \A i \in 1..Len(args.band) :
            (args.answers[i] >= 200 /\ args.answers[i] < 400) =>
                /\ i <= Len(requests)
                /\ requests[i].params.filter = <<"HSC-", Upper(args.band[i])>>
                /\ result.kind = "return"
                /\ \E k \in 1..Len(StackFilters(result.value)) :
                       StackFilters(result.value)[k] = <<"HSC-", Upper(args.band[i])>>

Matches(table, survey) == {i \in 1..Len(table) : table[i].col0 = survey}

(* C9, as stated: with one or more matching rows, the product that supplies
   the coordinate transform is the product whose raster is cropped. *)
C9_SameRow ==
    (op = "fetch_galex_cutout" /\ Matches(args.table, args.survey) # {}) =>
        /\ result.kind = "return"
        /\ result.value.wcs = result.value.of

(* C9, amended: the transform is read from the product of the first matching
   row and the raster is that of the last matching row, each taken from the
   row's cell 20 and fetched in that order after the discovery; the two are
   the same row exactly when one row matches. *)
C9_FirstAndLastRow ==
    (op = "fetch_galex_cutout" /\ Matches(args.table, args.survey) # {}) =>
        LET m == Matches(args.table, args.survey)
            first == CHOOSE i \in m : \A j \in m : i <= j
            last == CHOOSE i \in m : \A j \in m : j <= i
        IN  /\ result.kind = "return"
            /\ result.value.wcs = args.table[first].col20
            /\ result.value.of = args.table[last].col20
            /\ Len(requests) = 3
            /\ requests[2].url = args.table[first].col20
            /\ requests[3].url = args.table[last].col20
            /\ (result.value.wcs = result.value.of) <=> (Cardinality(m) = 1)

(* Two matching rows: the transform of one product, the raster of another. *)
C9_Witness ==
    /\ op = "fetch_galex_cutout"
    /\ Cardinality(Matches(args.table, args.survey)) = 2
    /\ result.kind = "return"
    /\ result.value.wcs # result.value.of

(* C10, as stated: the cutout is a square of side size / pixscale, and when
   the window reaches past the raster it has the reduced size of the part
   inside the raster. *)
C10_SizedAndClipped ==
    (op = "fetch_galex_cutout" /\ Matches(args.table, args.survey) # {}) =>
        /\ result.kind = "return"
        /\ result.value.size[1] * PixscaleNum = args.size * PixscaleDen
        /\ result.value.size[2] * PixscaleNum = args.size * PixscaleDen
        /\ result.value.size = result.value.inside

(* C10, amended: the cutout is a square of side 2 * floor(size / pixscale / 2)
   whose centre is within half a pixel of the pixel position of (ra, dec);
   it never raises, and it keeps that full size when the window reaches past
   the raster (the part outside is filled, the result is not reduced). *)
C10_FullSizeWindow ==
    (op = "fetch_galex_cutout" /\ Matches(args.table, args.survey) # {}) =>
        LET c == CHOOSE k \in 0..args.size :
                     /\ 2 * k * PixscaleNum <= args.size * PixscaleDen
                     /\ args.size * PixscaleDen < 2 * (k + 1) * PixscaleNum
            box == result.value.box
        IN  /\ result.kind = "return"
            /\ result.value.size = <<2 * c, 2 * c>>
            /\ box[3] - box[1] = 2 * c
            /\ box[4] - box[2] = 2 * c
            /\ box[1] + box[3] - args.pix2[1] \in {-1, 0, 1}
            /\ box[2] + box[4] - args.pix2[2] \in {-1, 0, 1}
            /\ result.value.inside[1] <= result.value.size[1]
            /\ result.value.inside[2] <= result.value.size[2]
            /\ result.value.flipped

(* A 50 arcsec cutout (side 32, not 50 / 1.5) whose window leaves the raster. *)
C10_Witness ==
    /\ op = "fetch_galex_cutout"
    /\ args.size = 50
    /\ result.kind = "return"
    /\ result.value.type = "cutout"
    /\ result.value.size = <<32, 32>>
    /\ result.value.inside[1] < result.value.size[1]

====
